---- MODULE Spec2Model ----
(***************************************************************************)
(* CalBot task scheduling engine: the recurrence expander, the             *)
(* availability calculator, the slot selector and the scheduling           *)
(* orchestrator of backend/app/services, with the calendar store they      *)
(* write to, and the chat endpoint of backend/app/routes that drives them. *)
(*                                                                         *)
(* Time.  A datetime is a record [day, min]: day counts calendar days from *)
(* a Monday (day 0), min is the minute of the day.  An ISO string is the   *)
(* tuple <<day, hour, minute>> that isoformat() writes and fromisoformat() *)
(* reads back.  A clock string "HH:MM" is the tuple <<HH, MM>>.            *)
(*                                                                         *)
(* Strings that the code takes apart (recurrence patterns) are modelled as *)
(* the sequence of their "_"-separated segments: "weekly_monday" is        *)
(* <<"weekly", "monday">>, "weekly" is <<"weekly">>, "weekly_" is          *)
(* <<"weekly", "">>.                                                       *)
(***************************************************************************)
EXTENDS Integers, Sequences, FiniteSets, TLC

VARIABLES
    now,        \* the wall clock in the user's time zone (datetime.now(tz))
    calendar,   \* the calendar store: the sequence of events it holds
    pre,        \* the calendar as it was when the last schedule call began
    requests,   \* the create_event requests the last schedule call issued
    result,     \* what the last schedule_task call returned (or raised)
    prefs,      \* the caller's user_preferences dict after the last call
    fn,         \* component harness: which component was applied
    arg,        \* component harness: its input
    out,        \* component harness: its output
    user_conversations,     \* chat.py: user_id -> ConversationManager
    pending_confirmations,  \* chat.py: user_id -> pending confirmation
    inflight,   \* chat requests suspended at their await, by user
    calendars,  \* the calendar store of each chat user
    actor,      \* the user whose chat request took the last step
    served      \* by user, the outcome of their last completed chat request

chat ==
    <<user_conversations, pending_confirmations, inflight, calendars, actor,
      served>>

vars == <<now, calendar, pre, requests, result, prefs, fn, arg, out, chat>>

(***************************************************************************)
(* Bounds of the model.                                                    *)
(***************************************************************************)
MaxStartDay == 7    \* start dates of the expander: days 0..MaxStartDay
MaxCount == 3       \* occurrence counts: 1..MaxCount
MaxRangeDays == 8   \* availability ranges: days 0..MaxRangeDays
MaxEvents == 2      \* events the calendar may hold
MaxNowDay == 5      \* the clock runs up to day MaxNowDay (a Saturday)
MaxErrors == 1      \* create_event calls that may fail within one schedule call
MaxSelectDay == 2   \* selector ranges: days 0..MaxSelectDay
MaxCallDay == 6     \* single schedule calls: the clock is on day 0..MaxCallDay
MaxOccurrences == 6 \* single schedule calls: occurrence counts up to this
MaxTurns == 2       \* chat requests a user sends
MaxMessages == 14   \* messages added to one conversation memory

(***************************************************************************)
(* datetime, date and timedelta.                                           *)
(***************************************************************************)
MinutesPerDay == 24 * 60

DT(d, m) == [day |-> d, min |-> m]

\* Minutes since day 0, 00:00: the order datetimes are compared in.
Abs(dt) == dt.day * MinutesPerDay + dt.min

\* date.weekday(): Monday = 0 .. Sunday = 6.
Weekday(d) == d % 7

\* dt + timedelta(days = n)
AddDays(dt, n) == DT(dt.day + n, dt.min)

AddMinutesWholeHours(dt, n) ==
    DT(dt.day + ((dt.min + 60 * (n \div 60)) \div MinutesPerDay),
       (dt.min + 60 * (n \div 60)) % MinutesPerDay)

\* dt + timedelta(minutes = n)
AddMinutes(dt, n) ==
    DT(dt.day + ((dt.min + n) \div MinutesPerDay), (dt.min + n) % MinutesPerDay)

\* datetime.strptime(s, "%H:%M").time(), as the minute of the day.
StrpTime(s) == s[1] * 60 + s[2]

\* datetime.combine(date, time)
Combine(d, t) == DT(d, t)

\* datetime.isoformat() and datetime.fromisoformat()
IsoFormat(dt) == <<dt.day, dt.min \div 60, dt.min % 60>>
FromIsoFormat(s) == DT(s[1], s[2] * 60 + s[3])

\* Python's None: where a string is expected, and where a dict is expected.
None == "<None>"
NoneDict == [none |-> TRUE]

(***************************************************************************)
(* The strings a task carries in preferred_time and deadline, by what the  *)
(* code can read out of them: nothing (None), a full ISO timestamp, a       *)
(* clock time (digits, an optional ":minutes", an optional am/pm), or a     *)
(* word.  "1:30pm" is Clock(1, 30, TRUE, "pm"), "13:00" is                  *)
(* Clock(13, 0, TRUE, ""), "1pm" is Clock(1, 0, FALSE, "pm").               *)
(***************************************************************************)
Text(kind, word, dt, h, m, colon, ampm) ==
    [kind |-> kind, word |-> word, dt |-> dt, h |-> h, m |-> m,
     colon |-> colon, ampm |-> ampm]

NoText == Text("none", "", DT(0, 0), 0, 0, FALSE, "")
Word(w) == Text("word", w, DT(0, 0), 0, 0, FALSE, "")
IsoText(dt) == Text("iso", "", dt, 0, 0, FALSE, "")
Clock(h, m, colon, ampm) == Text("clock", "", DT(0, 0), h, m, colon, ampm)

\* if s: (None and "" are falsy)
Truthy(s) == s.kind # "none" /\ s # Word("")

\* s == "morning"
IsWord(s, w) == s.kind = "word" /\ s.word = w

\* dict.get(key, default)
Get(d, k, default) == IF k \in DOMAIN d THEN d[k] ELSE default

\* A task dict lists under "null" the keys the parser's JSON gave the value
\* null: dict.get(key, default) returns None for them, not the default.
IsNull(d, k) == k \in Get(d, "null", {})

(***************************************************************************)
(* Recurrence expander: TaskScheduler._generate_occurrence_dates.           *)
(***************************************************************************)
day_mapping ==
    [n \in {"monday", "tuesday", "wednesday", "thursday", "friday",
            "saturday", "sunday"} |->
        CASE n = "monday" -> 0 [] n = "tuesday" -> 1 [] n = "wednesday" -> 2
          [] n = "thursday" -> 3 [] n = "friday" -> 4 [] n = "saturday" -> 5
          [] OTHER -> 6]

\* for i in range(count): dates.append(current_date + timedelta(days=i))
DailyDates(current_date, count) ==
    [i \in 1..count |-> AddDays(current_date, i - 1)]

RECURSIVE WeekdaysLoopSat(_, _, _)
WeekdaysLoopSat(dates, current_date, count) ==
    IF Len(dates) < count
    THEN WeekdaysLoopSat(
             IF Weekday(current_date.day) < 6
             THEN Append(dates, current_date) ELSE dates,
             AddDays(current_date, 1), count)
    ELSE dates

\* while len(dates) < count: keep Monday..Friday, step one day.
RECURSIVE WeekdaysLoop(_, _, _)
WeekdaysLoop(dates, current_date, count) ==
    IF Len(dates) < count
    THEN WeekdaysLoop(
             IF Weekday(current_date.day) < 5
             THEN Append(dates, current_date) ELSE dates,
             AddDays(current_date, 1), count)
    ELSE dates

DaysAheadSameDay(target_day, weekday) ==
    LET days_ahead == target_day - weekday
    IN  IF days_ahead < 0 THEN days_ahead + 7 ELSE days_ahead

\* days_ahead = target_day - current_date.weekday(); if <= 0: += 7
DaysAhead(target_day, weekday) ==
    LET days_ahead == target_day - weekday
    IN  IF days_ahead <= 0 THEN days_ahead + 7 ELSE days_ahead

\* The weekly_ branch: day_name = pattern.split("_")[1], a name that is not
\* in day_mapping maps to 0 (Monday).
WeeklyDates(current_date, pattern, count) ==
    LET day_name == pattern[2]
        target_day == Get(day_mapping, day_name, 0)
        first_occurrence ==
            AddDays(current_date,
                    DaysAhead(target_day, Weekday(current_date.day)))
    IN  [i \in 1..count |-> AddDays(first_occurrence, 7 * (i - 1))]

\* pattern.startswith("weekly_")
StartsWithWeekly(pattern) == Len(pattern) >= 2 /\ pattern[1] = "weekly"

_generate_occurrence_dates(start_date, pattern, count) ==
    IF pattern = <<"daily">> THEN DailyDates(start_date, count)
    ELSE IF pattern = <<"weekdays">> THEN WeekdaysLoop(<<>>, start_date, count)
    ELSE IF StartsWithWeekly(pattern) THEN WeeklyDates(start_date, pattern, count)
    ELSE DailyDates(start_date, count)

(***************************************************************************)
(* The component harness: a component is applied once to an input drawn    *)
(* in the initial state.                                                   *)
(***************************************************************************)
DayNames ==
    {"monday", "tuesday", "wednesday", "thursday", "friday", "saturday",
     "sunday"}

KnownPatterns ==
    {<<"daily">>, <<"weekdays">>} \cup {<<"weekly", n>> : n \in DayNames}

Patterns ==
    KnownPatterns \cup
    {<<"monthly">>, <<"weekly">>, <<"weekly", "">>, <<"weekly", "funday">>,
     <<"weekly", "mon", "wed", "fri">>, <<"Daily">>}

StartMinutes == {0, 555, 1439}

\* No chat request has been served.
NoChat ==
    /\ user_conversations = <<>>
    /\ pending_confirmations = <<>>
    /\ inflight = <<>>
    /\ calendars = <<>>
    /\ actor = None
    /\ served = <<>>

Idle ==
    /\ now = DT(0, 0)
    /\ calendar = <<>>
    /\ pre = <<>>
    /\ requests = <<>>
    /\ result = [called |-> FALSE]
    /\ prefs = NoneDict
    /\ NoChat

ExpandInputs ==
    [start_date : {DT(d, m) : d \in 0..MaxStartDay, m \in StartMinutes},
     pattern : Patterns,
     count : 1..MaxCount]

InitExpand ==
    /\ Idle
    /\ fn = "ready"
    /\ arg \in ExpandInputs
    /\ out = <<>>

Expand ==
    /\ fn = "ready"
    /\ fn' = "expand"
    /\ out' = _generate_occurrence_dates(arg.start_date, arg.pattern, arg.count)
    /\ UNCHANGED <<now, calendar, pre, requests, result, prefs, arg, chat>>

NextExpand == Expand

SpecExpand == InitExpand /\ [][NextExpand]_vars

StrictlyIncreasing(dates) ==
    \A i \in 1..(Len(dates) - 1) : Abs(dates[i]) < Abs(dates[i + 1])

\* C4: the expander returns exactly count dates, strictly increasing; for
\* "weekdays" no returned date is a Saturday or a Sunday, and the start date
\* is the first date when it is a weekday.
C4_ExactlyNIncreasing ==
    fn = "expand" =>
        /\ Len(out) = arg.count
        /\ StrictlyIncreasing(out)
        /\ arg.pattern = <<"weekdays">> =>
              /\ \A i \in 1..Len(out) : Weekday(out[i].day) \in 0..4
              /\ Weekday(arg.start_date.day) \in 0..4 => out[1] = arg.start_date

\* A weekdays expansion that began on a Saturday and had to skip the week-end.
C4_Witness ==
    /\ fn = "expand"
    /\ arg.pattern = <<"weekdays">>
    /\ Weekday(arg.start_date.day) = 5
    /\ arg.count = MaxCount
    /\ Len(out) = MaxCount

\* C5: for weekly_<dayname> the first date falls on <dayname>, 1 to 7 days
\* after the start date (never the start date itself), and each later date
\* is exactly 7 days after the one before.
C5_WeeklyNextThenSevenDays ==
    (fn = "expand" /\ Len(arg.pattern) = 2 /\ arg.pattern[1] = "weekly"
        /\ arg.pattern[2] \in DayNames) =>
        /\ Weekday(out[1].day) = day_mapping[arg.pattern[2]]
        /\ out[1].day - arg.start_date.day \in 1..7
        /\ out[1].min = arg.start_date.min
        /\ \A i \in 1..(Len(out) - 1) : out[i + 1] = AddDays(out[i], 7)

\* weekly_monday expanded from a Monday: the first date is the next Monday.
C5_Witness ==
    /\ fn = "expand"
    /\ arg.pattern = <<"weekly", "monday">>
    /\ Weekday(arg.start_date.day) = 0
    /\ arg.count = MaxCount
    /\ out[1].day = arg.start_date.day + 7

\* C6: every pattern other than daily, weekdays and weekly_<dayname> expands
\* as daily does: start_date + i days for i in 0..count-1.
C6_UnknownPatternIsDaily ==
    (fn = "expand" /\ arg.pattern \notin KnownPatterns) =>
        /\ Len(out) = arg.count
        /\ \A i \in 1..Len(out) :
              out[i] = DT(arg.start_date.day + (i - 1), arg.start_date.min)

(***************************************************************************)
(* Availability calculator: GoogleCalendarService.get_availability, and    *)
(* the slot selector: find_best_time_slot.                                 *)
(***************************************************************************)
\* A slot as get_availability builds it.  The morning slot ends at "12:00",
\* the afternoon slot starts at "13:00", and duration_minutes is the literal
\* 180 and 240, for whatever work hours are passed in.
MorningSlot(current_date, work_hours_start) ==
    [start |-> IsoFormat(Combine(current_date, StrpTime(work_hours_start))),
     end |-> IsoFormat(Combine(current_date, StrpTime(<<12, 0>>))),
     duration_minutes |-> 180]

AfternoonSlot(current_date, work_hours_end) ==
    [start |-> IsoFormat(Combine(current_date, StrpTime(<<13, 0>>))),
     end |-> IsoFormat(Combine(current_date, StrpTime(work_hours_end))),
     duration_minutes |-> 240]

\* if current_date.weekday() < 5
IsWorkDay(current_date) == Weekday(current_date) < 5

\* while current_date <= end_date_only: ... current_date += timedelta(days=1)
RECURSIVE AvailabilityLoop(_, _, _, _, _)
AvailabilityLoop(available_slots, current_date, end_date_only, work_hours_start, work_hours_end) ==
    IF current_date <= end_date_only
    THEN AvailabilityLoop(
             IF IsWorkDay(current_date)
             THEN available_slots \o
                      <<MorningSlot(current_date, work_hours_start),
                        AfternoonSlot(current_date, work_hours_end)>>
             ELSE available_slots,
             current_date + 1, end_date_only, work_hours_start, work_hours_end)
    ELSE available_slots

\* get_events(start_date, end_date) is called first and its result is not
\* used: the slots do not depend on the calendar.
get_availability(start_date, end_date, work_hours_start, work_hours_end) ==
    AvailabilityLoop(<<>>, start_date.day, end_date.day,
                     work_hours_start, work_hours_end)

\* slot_start.hour of datetime.fromisoformat(slot["start"])
SlotHour(slot) == FromIsoFormat(slot.start).min \div 60

InPreferredBand(preferred_time, hour) ==
    \/ IsWord(preferred_time, "morning") /\ 6 <= hour /\ hour < 12
    \/ IsWord(preferred_time, "afternoon") /\ 12 <= hour /\ hour < 17
    \/ IsWord(preferred_time, "evening") /\ 17 <= hour /\ hour < 21

\* suitable_slots: the filter is on the slot's duration_minutes field.
SuitableSlots(available_slots, duration_minutes) ==
    SelectSeq(available_slots,
              LAMBDA slot : slot.duration_minutes >= duration_minutes)

PickByPriorityLowerMiddle(suitable_slots, priority) ==
    IF priority = "high" THEN suitable_slots[1]
    ELSE IF priority = "low" THEN suitable_slots[Len(suitable_slots)]
    ELSE suitable_slots[((Len(suitable_slots) - 1) \div 2) + 1]

\* suitable_slots[0], suitable_slots[-1], suitable_slots[len // 2]: Python
\* indexes from 0, a sequence from 1.
PickByPriority(suitable_slots, priority) ==
    IF priority = "high" THEN suitable_slots[1]
    ELSE IF priority = "low" THEN suitable_slots[Len(suitable_slots)]
    ELSE suitable_slots[(Len(suitable_slots) \div 2) + 1]

find_best_time_slot(available_slots, duration_minutes, preferred_time, priority) ==
    LET suitable_slots == SuitableSlots(available_slots, duration_minutes)
        preferred_slots ==
            SelectSeq(suitable_slots,
                      LAMBDA slot : InPreferredBand(preferred_time, SlotHour(slot)))
    IN  IF suitable_slots = <<>> THEN NoneDict
        ELSE IF Truthy(preferred_time) /\ preferred_slots # <<>>
             THEN PickByPriority(preferred_slots, priority)
             ELSE PickByPriority(suitable_slots, priority)

(***************************************************************************)
(* Work policies (user_preferences).  A policy without a break has         *)
(* break_start = break_end = None.                                         *)
(***************************************************************************)
Policy(ws, we, bs, be, tz) ==
    [work_hours_start |-> ws, work_hours_end |-> we,
     break_start |-> bs, break_end |-> be, timezone |-> tz]

NoBreak == <<-1, -1>>

HasBreak(policy) == policy.break_start # NoBreak

\* schedule_task's default preferences, which are also the ones chat.py passes.
DefaultPolicy(tz) == Policy(<<9, 0>>, <<17, 0>>, <<12, 0>>, <<13, 0>>, tz)

Policies ==
    {DefaultPolicy("UTC"),
     Policy(<<9, 0>>, <<17, 0>>, NoBreak, NoBreak, "UTC"),
     Policy(<<8, 0>>, <<16, 0>>, <<11, 30>>, <<12, 30>>, "UTC"),
     Policy(<<10, 0>>, <<18, 0>>, <<12, 0>>, <<13, 0>>, "UTC"),
     Policy(<<14, 0>>, <<18, 0>>, NoBreak, NoBreak, "UTC")}

RangeMinutes == {540, 600}

AvailInputs ==
    [range_start : {DT(d, m) : d \in 0..MaxRangeDays, m \in RangeMinutes},
     range_end : {DT(d, m) : d \in 0..MaxRangeDays, m \in RangeMinutes},
     policy : Policies]

InitAvail ==
    /\ Idle
    /\ fn = "ready"
    /\ arg \in AvailInputs
    /\ out = <<>>

\* The calculator as the orchestrator calls it: with the policy's work hours.
Availability ==
    /\ fn = "ready"
    /\ fn' = "availability"
    /\ out' = get_availability(arg.range_start, arg.range_end,
                              arg.policy.work_hours_start,
                              arg.policy.work_hours_end)
    /\ UNCHANGED <<now, calendar, pre, requests, result, prefs, arg, chat>>

NextAvail == Availability

SpecAvail == InitAvail /\ [][NextAvail]_vars

SlotStart(slot) == FromIsoFormat(slot.start)
SlotEnd(slot) == FromIsoFormat(slot.end)

SlotsOn(slots, d) == SelectSeq(slots, LAMBDA slot : SlotStart(slot).day = d)

\* C7: intervals only on Monday..Friday dates inside the range's dates, none
\* on a Saturday or Sunday, at least one on every weekday of the range, and
\* the sequence in chronological order.
C7_WeekdaysOnlyInOrder ==
    fn = "availability" =>
        /\ \A i \in 1..Len(out) :
              /\ SlotStart(out[i]).day \in arg.range_start.day..arg.range_end.day
              /\ Weekday(SlotStart(out[i]).day) \in 0..4
        /\ \A d \in arg.range_start.day..arg.range_end.day :
              IF Weekday(d) \in 0..4
              THEN SlotsOn(out, d) # <<>> ELSE SlotsOn(out, d) = <<>>
        /\ \A i \in 1..(Len(out) - 1) :
              Abs(SlotStart(out[i])) <= Abs(SlotStart(out[i + 1]))

\* The intervals the work policy prescribes for one weekday.
PolicyIntervals(policy, d) ==
    IF HasBreak(policy)
    THEN <<[start |-> DT(d, StrpTime(policy.work_hours_start)),
            end |-> DT(d, StrpTime(policy.break_start))],
           [start |-> DT(d, StrpTime(policy.break_end)),
            end |-> DT(d, StrpTime(policy.work_hours_end))]>>
    ELSE <<[start |-> DT(d, StrpTime(policy.work_hours_start)),
            end |-> DT(d, StrpTime(policy.work_hours_end))]>>

Intervals(slots) ==
    [i \in 1..Len(slots) |->
        [start |-> SlotStart(slots[i]), end |-> SlotEnd(slots[i])]]

\* C8: on each weekday of the range the calculator emits exactly the
\* policy's intervals: [work_start, break_start] and [break_end, work_end]
\* with the policy's own break, one interval [work_start, work_end] without.
C8_FollowsWorkPolicy ==
    fn = "availability" =>
        \A d \in arg.range_start.day..arg.range_end.day :
            Weekday(d) \in 0..4 =>
                Intervals(SlotsOn(out, d)) = PolicyIntervals(arg.policy, d)

\* C9: an inverted range (range_start > range_end) and a zero-length range
\* give the empty sequence.
C9_EmptyOnInvertedOrEmptyRange ==
    (fn = "availability" /\ Abs(arg.range_start) >= Abs(arg.range_end)) =>
        out = <<>>

\* C25: for a policy with work_start < work_end, every free interval the
\* calculator emits ends strictly after it starts, and its advertised
\* duration_minutes is end minus start.
C25_IntervalsWellFormed ==
    (/\ fn = "availability"
     /\ StrpTime(arg.policy.work_hours_start)
            < StrpTime(arg.policy.work_hours_end)) =>
        \A i \in 1..Len(out) :
            /\ Abs(SlotEnd(out[i])) > Abs(SlotStart(out[i]))
            /\ out[i].duration_minutes
                   = Abs(SlotEnd(out[i])) - Abs(SlotStart(out[i]))

(***************************************************************************)
(* The slot selector applied to what the calculator produced.              *)
(***************************************************************************)
Durations == {30, 90, 150, 180, 240, 300}
PreferredWords ==
    {NoText, Word("morning"), Word("afternoon"), Word("evening"),
     Clock(1, 0, FALSE, "pm")}
Priorities == {"high", "medium", "low", "urgent"}

SelectInputs ==
    [range_start : {DT(d, 540) : d \in 0..MaxSelectDay},
     range_end : {DT(d, 1020) : d \in 0..MaxSelectDay},
     policy : Policies,
     duration_minutes : Durations,
     preferred_time : PreferredWords,
     priority : Priorities]

InitSelect ==
    /\ Idle
    /\ fn = "ready"
    /\ arg \in SelectInputs
    /\ out = <<>>

Select ==
    /\ fn = "ready"
    /\ fn' = "select"
    /\ out' = find_best_time_slot(
                  get_availability(arg.range_start, arg.range_end,
                                  arg.policy.work_hours_start,
                                  arg.policy.work_hours_end),
                  arg.duration_minutes, arg.preferred_time, arg.priority)
    /\ UNCHANGED <<now, calendar, pre, requests, result, prefs, arg, chat>>

NextSelect == Select

SpecSelect == InitSelect /\ [][NextSelect]_vars

\* C10: every interval the slot selector returns spans (end minus start) at
\* least the requested duration_minutes, for every work policy.
C10_SlotSpanSufficient ==
    (fn = "select" /\ out # NoneDict) =>
        Abs(SlotEnd(out)) - Abs(SlotStart(out)) >= arg.duration_minutes

\* The intervals the selector was given, and those of them whose span (end
\* minus start) is at least the requested duration.
SelectorIntervals ==
    get_availability(arg.range_start, arg.range_end,
                    arg.policy.work_hours_start, arg.policy.work_hours_end)

SpanSufficient(slots, duration_minutes) ==
    SelectSeq(slots,
              LAMBDA slot :
                  Abs(SlotEnd(slot)) - Abs(SlotStart(slot)) >= duration_minutes)

SomeInBand(slots, preferred_time) ==
    \E i \in 1..Len(slots) : InPreferredBand(preferred_time, SlotHour(slots[i]))

\* C11: the preference is advisory.  If some interval of sufficient span
\* starts in the preferred band, the returned interval starts in that band;
\* if none does, the selector returns what it returns with no preference.
C11_PreferenceIsAdvisory ==
    fn = "select" =>
        IF SomeInBand(SpanSufficient(SelectorIntervals, arg.duration_minutes),
                      arg.preferred_time)
        THEN /\ out # NoneDict
             /\ InPreferredBand(arg.preferred_time, SlotHour(out))
        ELSE out = find_best_time_slot(SelectorIntervals, arg.duration_minutes,
                                       NoText, arg.priority)

\* The list that survives the selector's filters: the intervals that pass
\* the sufficiency filter, narrowed to the preferred band when that leaves
\* any.
SurvivingSlots ==
    LET sufficient == SuitableSlots(SelectorIntervals, arg.duration_minutes)
        banded ==
            SelectSeq(sufficient,
                      LAMBDA slot :
                          InPreferredBand(arg.preferred_time, SlotHour(slot)))
    IN  IF banded # <<>> THEN banded ELSE sufficient

\* C12: from the surviving list L (non-empty, chronological) the selector
\* returns L[0] for priority high, the last element for low, and
\* L[len(L) div 2] (counting from 0) for medium and any other priority.
C12_PriorityPicksByPosition ==
    (fn = "select" /\ SurvivingSlots # <<>>) =>
        LET L == SurvivingSlots
        IN  /\ arg.priority = "high" => out = L[1]
            /\ arg.priority = "low" => out = L[Len(L)]
            /\ arg.priority \notin {"high", "low"} =>
                  out = L[(Len(L) \div 2) + 1]

\* A priority that is neither high, medium nor low, on a list of four
\* intervals: the third one is returned, neither the first nor the last.
C12_Witness ==
    /\ fn = "select"
    /\ arg.priority = "urgent"
    /\ Len(SurvivingSlots) = 4
    /\ out = SurvivingSlots[3]
    /\ out # SurvivingSlots[1]
    /\ out # SurvivingSlots[4]

(***************************************************************************)
(* The calendar store: GoogleCalendarService.create_event.                 *)
(***************************************************************************)
\* The two intervals [s1, e1) and [s2, e2) overlap.
Overlaps(s1, e1, s2, e2) == Abs(s1) < Abs(e2) /\ Abs(s2) < Abs(e1)

EventStart(e) == FromIsoFormat(e.start)
EventEnd(e) == FromIsoFormat(e.end)

EventsOverlap(a, b) ==
    Overlaps(EventStart(a), EventEnd(a), EventStart(b), EventEnd(b))

\* create_event(title, start_time, end_time, description): the dict it
\* returns.  Without an API client (mock mode) and on an HttpError nothing
\* is stored; the first returns status "confirmed", the second "error".
create_event(title, start_time, end_time, description, status) ==
    [title |-> title,
     start |-> IsoFormat(start_time),
     end |-> IsoFormat(end_time),
     description |-> description,
     status |-> status]

(***************************************************************************)
(* Time zones: pytz.timezone(name) and datetime.now(tz).  now is the UTC   *)
(* clock; a zone is its offset in minutes.                                 *)
(***************************************************************************)
TzOffset == [z \in {"UTC", "Asia/Tokyo"} |-> IF z = "UTC" THEN 0 ELSE 9 * 60]

KnownZone(tz_name) == tz_name \in DOMAIN TzOffset

NowIn(clock, tz_name) == AddMinutes(clock, TzOffset[tz_name])

\* tz_name = user_timezone or user_preferences.get("timezone")
\*           or os.getenv("TIMEZONE", "UTC")
TzName(user_preferences, user_timezone) ==
    IF user_timezone \notin {None, ""} THEN user_timezone
    ELSE IF Get(user_preferences, "timezone", None) \notin {None, ""}
         THEN user_preferences.timezone
         ELSE "UTC"

(***************************************************************************)
(* Scheduling orchestrator: TaskScheduler.schedule_task.  Each operator    *)
(* yields [result, requests]: the dict returned (or the exception raised)  *)
(* and the create_event calls made, in order.  status[i] is the status the *)
(* store gives the i-th create_event call.                                 *)
(***************************************************************************)
Outcome(res, reqs) == [result |-> res, requests |-> reqs]

Raised(exc) == [raised |-> exc]

ClockHourNoonShifted(t) ==
    IF t.ampm = "pm" THEN t.h + 12
    ELSE IF t.ampm = "am" /\ t.h = 12 THEN 0
    ELSE t.h

\* hour and minute of a clock string: pm adds 12 below 12, 12am is hour 0;
\* without ":" the minute is 0.
ClockHour(t) ==
    IF t.ampm = "pm" /\ t.h < 12 THEN t.h + 12
    ELSE IF t.ampm = "am" /\ t.h = 12 THEN 0
    ELSE t.h

ClockMinute(t) == IF t.colon THEN t.m ELSE 0

ClockParsesAnyHour(t) ==
    /\ t.kind = "clock"
    /\ ClockMinute(t) \in 0..59

\* int() of the digits succeeds and time.replace(hour, minute) accepts them.
ClockParses(t) ==
    /\ t.kind = "clock"
    /\ ClockHour(t) \in 0..23
    /\ ClockMinute(t) \in 0..59

\* datetime.fromisoformat(s) succeeds.
IsoParses(t) == t.kind = "iso"

\* Both anchors parse: the exact-time path is taken.
ExactParses(preferred_time, deadline) ==
    /\ Truthy(preferred_time) /\ Truthy(deadline)
    /\ IsoParses(deadline)
    /\ IsoParses(preferred_time) \/ ClockParses(preferred_time)

ExactStart(preferred_time, deadline) ==
    IF IsoParses(preferred_time) THEN preferred_time.dt
    ELSE Combine(deadline.dt.day,
                 ClockHour(preferred_time) * 60 + ClockMinute(preferred_time))

PriorityDescription(priority) ==
    [kind |-> "Priority", priority |-> priority, by |-> "Scheduled by CalBot"]

RecurringDescription(pattern) ==
    [kind |-> "Recurring task", pattern |-> pattern, by |-> "Scheduled by CalBot"]

SingleSuccess(title, event, start_time) ==
    [success |-> TRUE, event |-> event,
     message |-> <<"Scheduled", title, IsoFormat(start_time)>>]

\* available_slots[:3]
FirstThree(available_slots) ==
    SubSeq(available_slots, 1, IF Len(available_slots) < 3
                               THEN Len(available_slots) ELSE 3)

_schedule_single_task(task_data, user_preferences, user_timezone, clock, status) ==
    LET title == Get(task_data, "title", "Untitled Task")
        duration == Get(task_data, "duration_minutes", 60)
        priority == Get(task_data, "priority", "medium")
        preferred_time == Get(task_data, "preferred_time", NoText)
        deadline == Get(task_data, "deadline", NoText)
        tz_name == TzName(user_preferences, user_timezone)
        start_date == NowIn(clock, tz_name)
        end_date ==
            IF Truthy(deadline) /\ IsoParses(deadline) THEN deadline.dt
            ELSE AddDays(start_date, 7)
        available_slots ==
            get_availability(start_date, end_date,
                            user_preferences.work_hours_start,
                            user_preferences.work_hours_end)
        best_slot ==
            find_best_time_slot(available_slots, duration, preferred_time, priority)
        start_time == FromIsoFormat(best_slot.start)
        end_time == AddMinutes(start_time, duration)
        exact_start == ExactStart(preferred_time, deadline)
    IN  IF ExactParses(preferred_time, deadline)
        THEN Outcome(
                 SingleSuccess(title,
                     create_event(title, exact_start, deadline.dt,
                                 PriorityDescription(priority), status[1]),
                     exact_start),
                 <<create_event(title, exact_start, deadline.dt,
                               PriorityDescription(priority), status[1])>>)
        ELSE IF ~KnownZone(tz_name)
        THEN Outcome(Raised("UnknownTimeZoneError"), <<>>)
        ELSE IF best_slot = NoneDict
        THEN Outcome([success |-> FALSE,
                      error |-> "No available time slots found",
                      alternatives |-> FirstThree(available_slots)], <<>>)
        ELSE Outcome(
                 SingleSuccess(title,
                     create_event(title, start_time, end_time,
                                 PriorityDescription(priority), status[1]),
                     start_time),
                 <<create_event(title, start_time, end_time,
                               PriorityDescription(priority), status[1])>>)

\* The loop leaving at the first date without a slot.
RECURSIVE OccurrenceLoopStopping(_, _, _, _, _, _)
OccurrenceLoopStopping(events_created, occurrence_dates, i, task_data, user_preferences, status) ==
    IF i > Len(occurrence_dates) THEN events_created
    ELSE
        LET day_start ==
                Combine(occurrence_dates[i].day,
                        StrpTime(user_preferences.work_hours_start))
            day_end ==
                Combine(occurrence_dates[i].day,
                        StrpTime(user_preferences.work_hours_end))
            best_slot ==
                find_best_time_slot(
                    get_availability(day_start, day_end,
                                    user_preferences.work_hours_start,
                                    user_preferences.work_hours_end),
                    Get(task_data, "duration_minutes", 60),
                    Get(task_data, "preferred_time", NoText), "medium")
            start_time == FromIsoFormat(best_slot.start)
        IN  IF best_slot = NoneDict THEN events_created
            ELSE OccurrenceLoopStopping(
                     Append(events_created,
                            create_event(
                                Get(task_data, "title", "Untitled Task"),
                                start_time,
                                AddMinutes(start_time,
                                    Get(task_data, "duration_minutes", 60)),
                                RecurringDescription(
                                    Get(task_data, "recurrence_pattern",
                                        <<"daily">>)),
                                status[Len(events_created) + 1])),
                     occurrence_dates, i + 1, task_data, user_preferences,
                     status)

\* for occurrence_date in occurrence_dates: the events created so far.
RECURSIVE OccurrenceLoop(_, _, _, _, _, _)
OccurrenceLoop(events_created, occurrence_dates, i, task_data, user_preferences, status) ==
    IF i > Len(occurrence_dates) THEN events_created
    ELSE
        LET title == Get(task_data, "title", "Untitled Task")
            duration == Get(task_data, "duration_minutes", 60)
            pattern == Get(task_data, "recurrence_pattern", <<"daily">>)
            preferred_time == Get(task_data, "preferred_time", NoText)
            day_start ==
                Combine(occurrence_dates[i].day,
                        StrpTime(user_preferences.work_hours_start))
            day_end ==
                Combine(occurrence_dates[i].day,
                        StrpTime(user_preferences.work_hours_end))
            available_slots ==
                get_availability(day_start, day_end,
                                user_preferences.work_hours_start,
                                user_preferences.work_hours_end)
            best_slot ==
                find_best_time_slot(available_slots, duration, preferred_time,
                                 "medium")
            start_time == FromIsoFormat(best_slot.start)
            end_time == AddMinutes(start_time, duration)
        IN  OccurrenceLoop(
                IF best_slot # NoneDict
                THEN Append(events_created,
                            create_event(title, start_time, end_time,
                                        RecurringDescription(pattern),
                                        status[Len(events_created) + 1]))
                ELSE events_created,
                occurrence_dates, i + 1, task_data, user_preferences, status)

\* pattern None: pattern.startswith raises AttributeError; count None:
\* range(count) and len(dates) < count raise TypeError.
_schedule_recurring_task(task_data, user_preferences, user_timezone, clock, status) ==
    LET title == Get(task_data, "title", "Untitled Task")
        pattern == Get(task_data, "recurrence_pattern", <<"daily">>)
        occurrences == Get(task_data, "occurrences", 1)
        tz_name == TzName(user_preferences, user_timezone)
        start_date == NowIn(clock, tz_name)
        occurrence_dates ==
            _generate_occurrence_dates(start_date, pattern, occurrences)
        events_created ==
            OccurrenceLoop(<<>>, occurrence_dates, 1, task_data,
                           user_preferences, status)
    IN  IF ~KnownZone(tz_name)
        THEN Outcome(Raised("UnknownTimeZoneError"), <<>>)
        ELSE IF IsNull(task_data, "recurrence_pattern")
        THEN Outcome(Raised("AttributeError"), <<>>)
        ELSE IF IsNull(task_data, "occurrences")
        THEN Outcome(Raised("TypeError"), <<>>)
        ELSE IF events_created = <<>>
        THEN Outcome([success |-> FALSE,
                      error |-> "Could not schedule any occurrences",
                      attempted |-> occurrences], <<>>)
        ELSE Outcome([success |-> TRUE, events |-> events_created,
                      message |-> <<"Scheduled", Len(events_created), title>>],
                     events_created)

\* The preferences schedule_task works with: the defaults when the caller
\* gave none, else the caller's dict with its timezone overwritten by
\* user_timezone when that is given.
EffectivePreferences(user_preferences, user_timezone) ==
    IF user_preferences = NoneDict
    THEN DefaultPolicy(IF user_timezone \notin {None, ""}
                       THEN user_timezone ELSE "UTC")
    ELSE IF user_timezone \notin {None, ""}
    THEN [user_preferences EXCEPT !.timezone = user_timezone]
    ELSE user_preferences

\* The caller's dict after the call: the assignment above is made in place.
CallerPreferences(user_preferences, user_timezone) ==
    IF user_preferences = NoneDict THEN NoneDict
    ELSE EffectivePreferences(user_preferences, user_timezone)

schedule_task(task_data, user_preferences, user_timezone, clock, status) ==
    IF Get(task_data, "recurring", FALSE)
    THEN _schedule_recurring_task(task_data,
             EffectivePreferences(user_preferences, user_timezone),
             user_timezone, clock, status)
    ELSE _schedule_single_task(task_data,
             EffectivePreferences(user_preferences, user_timezone),
             user_timezone, clock, status)

(***************************************************************************)
(* The scheduler at work on a calendar.                                    *)
(***************************************************************************)
External(title, d, from, to) ==
    [title |-> title, start |-> IsoFormat(DT(d, from)),
     end |-> IsoFormat(DT(d, to)), description |-> [kind |-> "external"],
     status |-> "confirmed"]

\* The clock starts on a Friday afternoon (UTC).
FirstNowDay == day_mapping["friday"]
NowMinute == 16 * 60

\* Calendars the user may come with: their events do not overlap.
InitialCalendars ==
    {<<>>, <<External("Standup", FirstNowDay, 570, 600)>>}

Tasks ==
    {[title |-> "Report", duration_minutes |-> 60, priority |-> "high"],
     [title |-> "Lunch", duration_minutes |-> 60, priority |-> "medium",
      preferred_time |-> Clock(1, 0, FALSE, "pm"),
      deadline |-> IsoText(DT(FirstNowDay + 3, 840))],
     [title |-> "Notes", duration_minutes |-> 90, priority |-> "low",
      preferred_time |-> Word("afternoon"),
      deadline |-> IsoText(DT(FirstNowDay + 3, 1020))],
     [title |-> "Deep work", duration_minutes |-> 300, priority |-> "high"],
     [recurring |-> TRUE, recurrence_pattern |-> <<"daily">>,
      occurrences |-> 2, preferred_time |-> Word("morning")],
     [title |-> "Sync", duration_minutes |-> 30, recurring |-> TRUE,
      recurrence_pattern |-> <<"weekdays">>, occurrences |-> 2]}

\* The (user_preferences, user_timezone) pairs of a call.
PreferenceInputs ==
    {<<NoneDict, None>>,
     <<NoneDict, "Asia/Tokyo">>,
     <<Policy(<<10, 0>>, <<18, 0>>, <<12, 0>>, <<13, 0>>, "UTC"), None>>,
     <<Policy(<<10, 0>>, <<18, 0>>, <<12, 0>>, <<13, 0>>, "UTC"), "Asia/Tokyo">>,
     <<DefaultPolicy("UTC"), "Mars/Phobos">>}

Init ==
    /\ now = DT(FirstNowDay, NowMinute)
    /\ calendar \in InitialCalendars
    /\ pre = calendar
    /\ requests = <<>>
    /\ result = [called |-> FALSE]
    /\ prefs = NoneDict
    /\ fn = "scheduler"
    /\ arg = <<>>
    /\ out = <<>>
    /\ NoChat

\* The store's answer to each create_event call of one schedule call: the
\* calls in errors end in an HttpError.
StatusOf(errors) ==
    [i \in 1..(MaxCount + MaxOccurrences) |->
        IF i \in errors THEN "error" ELSE "confirmed"]

\* What the store holds more after the call: nothing in mock mode (no API
\* client), else the events whose insert went through.
StoredBy(service, reqs) ==
    IF service = "mock" THEN <<>>
    ELSE SelectSeq(reqs, LAMBDA e : e.status = "confirmed")

ErrorSets(n) == {E \in SUBSET (1..n) : Cardinality(E) <= MaxErrors}

\* One schedule_task call, as chat.py makes it for a parsed task.
ScheduleTask ==
    \E task_data \in Tasks, pu \in PreferenceInputs, errors \in ErrorSets(2) :
        \E o \in {schedule_task(task_data, pu[1], pu[2], now,
                                      StatusOf(errors))} :
            \E service \in IF errors = {} THEN {"real", "mock"} ELSE {"real"} :
                /\ errors \subseteq 1..Len(o.requests)
                /\ Len(calendar) + Len(StoredBy(service, o.requests)) <= MaxEvents
                /\ pre' = calendar
                /\ requests' = o.requests
                /\ result' = o.result
                /\ prefs' = CallerPreferences(pu[1], pu[2])
                /\ calendar' = calendar \o StoredBy(service, o.requests)
                /\ UNCHANGED <<now, fn, arg, out, chat>>

\* Time passes between two requests.
Tick ==
    /\ now.day < MaxNowDay
    /\ now' = AddDays(now, 1)
    /\ UNCHANGED <<calendar, pre, requests, result, prefs, fn, arg, out, chat>>

Next == ScheduleTask \/ Tick

Spec == Init /\ [][Next]_vars

\* The events of a sequence that overlap the interval of event p, and
\* their order by start time.
Overlapping(p, events) ==
    SelectSeq(events, LAMBDA e : EventsOverlap(p, e))

OrderedByStart(events) ==
    \A i \in 1..(Len(events) - 1) :
        Abs(EventStart(events[i])) <= Abs(EventStart(events[i + 1]))

\* What chat.py reads from a schedule result: result.get("has_conflict") and
\* result.get("conflicts", []).
HasConflict(res) == Get(res, "has_conflict", FALSE)
Conflicts(res) == Get(res, "conflicts", <<>>)

\* C1: a schedule call made without force issues no create_event request for
\* an interval that overlaps an event the calendar already holds, and
\* returns a Conflict result instead.
C1_ConflictBlocksWrite ==
    /\ \A i \in 1..Len(requests) : Overlapping(requests[i], pre) = <<>>
    /\ HasConflict(result) => requests = <<>>

\* C2: from a calendar whose events do not overlap, schedule calls without
\* force leave a calendar whose events do not overlap.
C2_NoOverlapWithoutForce ==
    \A i, j \in 1..Len(calendar) :
        i < j => ~EventsOverlap(calendar[i], calendar[j])

\* C3: the conflicts reported for a proposed interval are exactly the
\* existing events e with proposed.start < e.end and e.start < proposed.end,
\* ordered by start time.
C3_ConflictsAreTheOverlappingEvents ==
    Len(requests) = 1 =>
        /\ OrderedByStart(Conflicts(result))
        /\ \A j \in 1..Len(pre) :
              (/\ Abs(EventStart(requests[1])) < Abs(EventEnd(pre[j]))
               /\ Abs(EventStart(pre[j])) < Abs(EventEnd(requests[1])))
              <=> (\E k \in 1..Len(Conflicts(result)) :
                      Conflicts(result)[k] = pre[j])

(***************************************************************************)
(* One schedule_task call on an empty calendar, for a task, preferences    *)
(* and clock drawn in the initial state.                                   *)
(***************************************************************************)
PreferredTimes ==
    {NoText, Word("afternoon"), Word("after lunch"),
     Clock(13, 0, TRUE, ""), Clock(1, 0, FALSE, "pm"), Clock(1, 30, TRUE, "pm"),
     Clock(12, 0, FALSE, "am"), Clock(12, 15, TRUE, "pm"),
     Clock(5, 0, FALSE, "pm"), Clock(25, 0, TRUE, ""), IsoText(DT(5, 600))}

\* Day 5 is a Saturday, day 7 a Monday, day 9 a Wednesday.
Deadlines ==
    {NoText, Word("Friday"), IsoText(DT(5, 840)), IsoText(DT(7, 600)),
     IsoText(DT(9, 1020))}

SingleTasks ==
    {[title |-> "Report", duration_minutes |-> 60, priority |-> "high"],
     [title |-> "Review", duration_minutes |-> 150, priority |-> "high"],
     [title |-> "Deep work", duration_minutes |-> 300, priority |-> "high"],
     [title |-> "Call", priority |-> "low"]}
    \cup
    {[title |-> "Lunch", duration_minutes |-> 60, priority |-> "medium",
      preferred_time |-> pt, deadline |-> dl] :
        pt \in PreferredTimes, dl \in Deadlines}

CallPatterns ==
    {<<"daily">>, <<"weekdays">>, <<"weekly", "monday">>, <<"monthly">>}

OccurrenceCounts == {1, 2, MaxOccurrences}

\* Recurring tasks: complete ones, ones with a key left out, and ones with
\* the value null, which is what the parser's output format writes.
RecurringTasks ==
    {[title |-> "Gym", duration_minutes |-> 30, recurring |-> TRUE,
      recurrence_pattern |-> p, occurrences |-> n] :
        p \in CallPatterns, n \in OccurrenceCounts}
    \cup
    {[title |-> "Gym", duration_minutes |-> 30, recurring |-> TRUE,
      occurrences |-> n] : n \in OccurrenceCounts}
    \cup
    {[title |-> "Gym", duration_minutes |-> 30, recurring |-> TRUE,
      recurrence_pattern |-> p] : p \in CallPatterns}
    \cup
    {[title |-> "Gym", duration_minutes |-> 30, recurring |-> TRUE],
     [title |-> "Gym", duration_minutes |-> 30, recurring |-> TRUE,
      occurrences |-> 2, null |-> {"recurrence_pattern"}],
     [title |-> "Gym", duration_minutes |-> 30, recurring |-> TRUE,
      recurrence_pattern |-> <<"daily">>, null |-> {"occurrences"}],
     [title |-> "Gym", duration_minutes |-> 30, recurring |-> TRUE,
      null |-> {"recurrence_pattern", "occurrences"}],
     [title |-> "Retreat", duration_minutes |-> 300, recurring |-> TRUE,
      recurrence_pattern |-> <<"daily">>, occurrences |-> 2]}

CallInputs ==
    [task_data : SingleTasks \cup RecurringTasks,
     preferences : PreferenceInputs]

InitCall ==
    /\ now \in {DT(d, NowMinute) : d \in 0..MaxCallDay}
    /\ calendar = <<>>
    /\ pre = <<>>
    /\ requests = <<>>
    /\ result = [called |-> FALSE]
    /\ prefs = NoneDict
    /\ fn = "ready"
    /\ arg \in CallInputs
    /\ out = <<>>
    /\ NoChat

Call ==
    /\ fn = "ready"
    /\ \E errors \in ErrorSets(MaxOccurrences) :
        \E o \in {schedule_task(arg.task_data, arg.preferences[1],
                                      arg.preferences[2], now,
                                      StatusOf(errors))} :
            \E service \in IF errors = {} THEN {"real", "mock"} ELSE {"real"} :
                /\ errors \subseteq 1..Len(o.requests)
                /\ fn' = "called"
                /\ pre' = calendar
                /\ requests' = o.requests
                /\ result' = o.result
                /\ prefs' = CallerPreferences(arg.preferences[1],
                                              arg.preferences[2])
                /\ calendar' = calendar \o StoredBy(service, o.requests)
                /\ UNCHANGED <<now, arg, out, chat>>

NextCall == Call

SpecCall == InitCall /\ [][NextCall]_vars

\* The hour a clock time names: pm adds 12 to hours below 12, 12am is 0.
NamedHour(t) ==
    IF t.ampm = "pm" /\ t.h < 12 THEN t.h + 12
    ELSE IF t.ampm = "am" /\ t.h = 12 THEN 0
    ELSE t.h

NamedMinute(t) == IF t.colon THEN t.m ELSE 0

\* preferred_time is a full timestamp or a clock time of the forms "13:00",
\* "1pm", "1:30pm", and deadline is a full timestamp.
ExactlyTimed(task_data) ==
    /\ ~Get(task_data, "recurring", FALSE)
    /\ {"preferred_time", "deadline"} \subseteq DOMAIN task_data
    /\ task_data.deadline.kind = "iso"
    /\ \/ task_data.preferred_time.kind = "iso"
       \/ /\ task_data.preferred_time.kind = "clock"
          /\ NamedHour(task_data.preferred_time) \in 0..23
          /\ NamedMinute(task_data.preferred_time) \in 0..59

NamedStart(task_data) ==
    IF task_data.preferred_time.kind = "iso" THEN task_data.preferred_time.dt
    ELSE DT(task_data.deadline.dt.day,
            NamedHour(task_data.preferred_time) * 60
                + NamedMinute(task_data.preferred_time))

\* C13: with a deadline that is a full timestamp and a preferred_time that
\* is a full timestamp or a clock time, the one interval proposed is
\* [parsed start, parsed deadline], a clock time being placed on the
\* deadline's date; work hours, week-ends and the time zone (which the
\* availability search reads) have no part in it.
C13_ExactTimesUsedDirectly ==
    (fn = "called" /\ ExactlyTimed(arg.task_data)) =>
        /\ Len(requests) = 1
        /\ requests[1].title = arg.task_data.title
        /\ requests[1].start = IsoFormat(NamedStart(arg.task_data))
        /\ requests[1].end = IsoFormat(arg.task_data.deadline.dt)
        /\ Get(result, "success", FALSE)
        /\ result.event = requests[1]

\* "12:15pm" with a Saturday deadline under an unknown time zone: the
\* interval is Saturday 12:15-14:00, where the availability search has no
\* slot and would have raised.
C13_Witness ==
    /\ fn = "called"
    /\ arg.task_data.title = "Lunch"
    /\ arg.task_data.preferred_time = Clock(12, 15, TRUE, "pm")
    /\ arg.task_data.deadline = IsoText(DT(5, 840))
    /\ arg.preferences[2] = "Mars/Phobos"
    /\ Len(requests) = 1
    /\ requests[1].start = <<5, 12, 15>>
    /\ requests[1].end = <<5, 14, 0>>

\* The preferences and the zone a call works with.
CallPreferences == EffectivePreferences(arg.preferences[1], arg.preferences[2])
CallZone == TzName(CallPreferences, arg.preferences[2])

\* A recurring task that carries its pattern and its count, called with a
\* time zone that exists.
WellFormedRecurring ==
    /\ Get(arg.task_data, "recurring", FALSE)
    /\ {"recurrence_pattern", "occurrences"} \subseteq DOMAIN arg.task_data
    /\ KnownZone(CallZone)

\* The dates the expander generates for the call, and whether the selector
\* finds a slot on a date.
GeneratedDates ==
    _generate_occurrence_dates(NowIn(now, CallZone),
                               arg.task_data.recurrence_pattern,
                               arg.task_data.occurrences)

SlotFoundOn(date) ==
    find_best_time_slot(
        get_availability(
            Combine(date.day, StrpTime(CallPreferences.work_hours_start)),
            Combine(date.day, StrpTime(CallPreferences.work_hours_end)),
            CallPreferences.work_hours_start, CallPreferences.work_hours_end),
        Get(arg.task_data, "duration_minutes", 60),
        Get(arg.task_data, "preferred_time", NoText), "medium") # NoneDict

DatesWithSlot == SelectSeq(GeneratedDates, SlotFoundOn)

\* C14: a recurring call yields one event per generated date on which a slot
\* was found, in date order, dates without capacity being skipped and the
\* later dates still tried; it fails (no occurrence could be scheduled) if
\* and only if no date had a slot.
C14_OneEventPerDateWithSlot ==
    (fn = "called" /\ WellFormedRecurring) =>
        IF DatesWithSlot = <<>>
        THEN /\ ~result.success
             /\ result.error = "Could not schedule any occurrences"
             /\ requests = <<>>
        ELSE /\ result.success
             /\ requests = result.events
             /\ Len(result.events) = Len(DatesWithSlot)
             /\ \A i \in 1..Len(result.events) :
                   EventStart(result.events[i]).day = DatesWithSlot[i].day

\* A daily task of MaxOccurrences occurrences asked for on a Sunday: the
\* Sunday has no capacity, the following weekdays are all scheduled.
C14_Witness ==
    /\ fn = "called"
    /\ WellFormedRecurring
    /\ arg.task_data.recurrence_pattern = <<"daily">>
    /\ arg.task_data.occurrences = MaxOccurrences
    /\ Weekday(GeneratedDates[1].day) = 6
    /\ result.success
    /\ Len(result.events) = MaxOccurrences - 1
    /\ EventStart(result.events[1]).day = GeneratedDates[2].day

\* The events a result reports as scheduled.
ScheduledEvents(res) ==
    IF ~Get(res, "success", FALSE) THEN <<>>
    ELSE IF "events" \in DOMAIN res THEN res.events
    ELSE IF "event" \in DOMAIN res THEN <<res.event>>
    ELSE <<>>

\* C15: an event whose creation failed in the store is not reported as
\* scheduled (a single task's call returns a failure), and no interval is
\* requested from the store twice.
C15_StoreFailureIsReported ==
    fn = "called" =>
        /\ \A i \in 1..Len(ScheduledEvents(result)) :
              ScheduledEvents(result)[i].status # "error"
        /\ \A i, j \in 1..Len(requests) :
              i < j => <<requests[i].start, requests[i].end>>
                           # <<requests[j].start, requests[j].end>>

\* C16: whatever the task and the preferences (an unknown time zone, a
\* null pattern, a null count, malformed time strings), schedule_task
\* returns one structured result, and no exception leaves it.
C16_AlwaysAStructuredResult ==
    fn = "called" =>
        /\ "raised" \notin DOMAIN result
        /\ "success" \in DOMAIN result

\* A recurring task with its pattern or its count missing: the key absent,
\* or its value null.
MissingRecurrenceFields(task_data) ==
    {k \in {"recurrence_pattern", "occurrences"} :
        k \notin DOMAIN task_data \/ IsNull(task_data, k)}

\* The same task with pattern = daily and occurrences = 1 in their place.
WithRecurrenceDefaults(task_data) ==
    [k \in (DOMAIN task_data \ {"null"})
            \cup {"recurrence_pattern", "occurrences"} |->
        IF k \in MissingRecurrenceFields(task_data)
        THEN IF k = "occurrences" THEN 1 ELSE <<"daily">>
        ELSE task_data[k]]

\* C20: a recurring task whose pattern and/or count is missing (absent or
\* null) is handled exactly as the task with pattern daily and count 1:
\* same result, same create_event requests.
C20_MissingFieldsDefault ==
    (/\ fn = "called"
     /\ Get(arg.task_data, "recurring", FALSE)
     /\ MissingRecurrenceFields(arg.task_data) # {}) =>
        \E errors \in ErrorSets(MaxOccurrences) :
            schedule_task(WithRecurrenceDefaults(arg.task_data),
                          arg.preferences[1], arg.preferences[2], now,
                          StatusOf(errors))
                = Outcome(result, requests)

\* A single task that is not exactly timed, called with a time zone that
\* exists: the search path, its window and its candidate intervals.
OnSearchPath ==
    /\ ~Get(arg.task_data, "recurring", FALSE)
    /\ ~ExactlyTimed(arg.task_data)
    /\ KnownZone(CallZone)

WindowStart == NowIn(now, CallZone)

WindowEnd ==
    IF Get(arg.task_data, "deadline", NoText).kind = "iso"
    THEN arg.task_data.deadline.dt
    ELSE AddDays(WindowStart, 7)

Candidates ==
    get_availability(WindowStart, WindowEnd, CallPreferences.work_hours_start,
                     CallPreferences.work_hours_end)

\* C21: on the search path the event lies inside the search window, which
\* is [now, deadline] with a parseable deadline and [now, now + 7 days]
\* without: it does not start before now and does not end after the
\* window's end.
C21_EventInsideSearchWindow ==
    (fn = "called" /\ OnSearchPath) =>
        \A i \in 1..Len(requests) :
            /\ Abs(EventStart(requests[i])) >= Abs(WindowStart)
            /\ Abs(EventEnd(requests[i])) <= Abs(WindowEnd)

\* C22: on the search path the call fails with "no slot found" exactly when
\* no candidate interval spans the task's duration; the failure carries the
\* first min(3, n) candidates as alternatives and no event is requested.
C22_NoSlotExactlyWhenNoneSpans ==
    (fn = "called" /\ OnSearchPath) =>
        LET duration == Get(arg.task_data, "duration_minutes", 60)
            failed == ~result.success
        IN  /\ failed <=> (SpanSufficient(Candidates, duration) = <<>>)
            /\ failed =>
                  /\ result.error = "No available time slots found"
                  /\ result.alternatives = FirstThree(Candidates)
                  /\ Len(result.alternatives) <= 3
                  /\ requests = <<>>

\* A single task that names both anchors, one of which cannot be parsed:
\* the deadline is not a timestamp, or preferred_time is a word, or a clock
\* time whose hour is outside 0..23 or whose minute is outside 0..59.
UnparsableAnchors ==
    /\ ~Get(arg.task_data, "recurring", FALSE)
    /\ Truthy(Get(arg.task_data, "preferred_time", NoText))
    /\ Truthy(Get(arg.task_data, "deadline", NoText))
    /\ ~ExactlyTimed(arg.task_data)

C24_PolicyUnchangedByCall ==
    (fn = "called" /\ arg.preferences[1] # NoneDict) =>
        prefs = arg.preferences[1]

\* C27: every event the scheduler asks the store to create starts strictly
\* before it ends, on the exact-time path as on the search and recurring
\* paths.
C27_EventStartsBeforeItEnds ==
    fn = "called" =>
        \A i \in 1..Len(requests) :
            Abs(EventStart(requests[i])) < Abs(EventEnd(requests[i]))

\* The free intervals of an event's day that start when the event starts:
\* the interval selected for an event of the search or the recurring path.
SelectedFor(e) ==
    SelectSeq(
        get_availability(
            Combine(EventStart(e).day,
                    StrpTime(CallPreferences.work_hours_start)),
            Combine(EventStart(e).day,
                    StrpTime(CallPreferences.work_hours_end)),
            CallPreferences.work_hours_start, CallPreferences.work_hours_end),
        LAMBDA slot : slot.start = e.start)

\* C28: an event of the search path or of the recurring path lies inside
\* the free interval selected for it (it starts no earlier and ends no
\* later), and with it inside the work window of its day.
C28_EventInsideSelectedInterval ==
    (fn = "called" /\ ~ExactlyTimed(arg.task_data)) =>
        \A i \in 1..Len(requests) :
            /\ Len(SelectedFor(requests[i])) = 1
            /\ Abs(EventStart(requests[i]))
                   >= Abs(SlotStart(SelectedFor(requests[i])[1]))
            /\ Abs(EventEnd(requests[i]))
                   <= Abs(SlotEnd(SelectedFor(requests[i])[1]))
            /\ EventStart(requests[i]).min
                   >= StrpTime(CallPreferences.work_hours_start)
            /\ Abs(EventEnd(requests[i]))
                   <= Abs(Combine(EventStart(requests[i]).day,
                                  StrpTime(CallPreferences.work_hours_end)))

\* The minutes from an event's start to its end.
Lasts(e) == Abs(EventEnd(e)) - Abs(EventStart(e))

\* C29, as claimed: every event lasts exactly the task's duration_minutes
\* (60 when the task names none), on the exact-time path, the search path
\* and the recurring path alike.
C29_EveryEventLastsDuration ==
    fn = "called" =>
        \A i \in 1..Len(requests) :
            Lasts(requests[i]) = Get(arg.task_data, "duration_minutes", 60)

\* C29, amended: every event of the search path and of the recurring path
\* lasts exactly duration_minutes (60 when the task names none); the event
\* of the exact-time path runs from the parsed start to the parsed
\* deadline, whatever duration_minutes is.
C29_DurationExceptExactTimes ==
    fn = "called" =>
        \A i \in 1..Len(requests) :
            IF ExactlyTimed(arg.task_data)
            THEN /\ requests[i].start = IsoFormat(NamedStart(arg.task_data))
                 /\ requests[i].end = IsoFormat(arg.task_data.deadline.dt)
            ELSE Lasts(requests[i])
                     = Get(arg.task_data, "duration_minutes", 60)

\* A recurring task of 30 minutes scheduled on several dates, each event
\* 30 minutes long.
C29_Witness ==
    /\ fn = "called"
    /\ Get(arg.task_data, "recurring", FALSE)
    /\ Get(arg.task_data, "duration_minutes", 60) = 30
    /\ Len(requests) >= 2
    /\ \A i \in 1..Len(requests) : Lasts(requests[i]) = 30

(***************************************************************************)
(* The chat endpoint: routes/chat.py, process_chat, with the conversation  *)
(* memory of claude_service.py.  A dict is a function whose domain is the  *)
(* set of its keys.                                                        *)
(***************************************************************************)
\* d[k] = v and del d[k]
Put(d, k, v) == [j \in DOMAIN d \cup {k} |-> IF j = k THEN v ELSE d[j]]
Del(d, k) == [j \in DOMAIN d \ {k} |-> d[j]]

\* ConversationManager(max_history=20)
max_history == 20

ConversationManager(maximum) ==
    [conversation_history |-> <<>>, max_history |-> maximum,
     summarized_context |-> None]

\* Keeps the last 10 messages; summary is the text Claude returns for the
\* older ones, None without an API client or when the API call fails.
_summarize_old_context(self, summary) ==
    LET history == self.conversation_history
        recent == SubSeq(history, Len(history) - 9, Len(history))
    IN  IF Len(history) <= 10 THEN self
        ELSE IF summary = None
        THEN [self EXCEPT !.conversation_history = recent]
        ELSE [self EXCEPT !.conversation_history = recent,
                          !.summarized_context = summary]

add_message(self, role, content, clock, summary) ==
    LET appended ==
            [self EXCEPT !.conversation_history =
                Append(@, [role |-> role, content |-> content,
                           timestamp |-> IsoFormat(clock)])]
    IN  IF Len(appended.conversation_history) > self.max_history
        THEN _summarize_old_context(appended, summary)
        ELSE appended

\* clear()
clear(self) ==
    [self EXCEPT !.conversation_history = <<>>, !.summarized_context = None]

\* The default user_id of a ChatMessage, and another user.
Users == {"demo_user", "alice"}

ConversationKeyDefault(message_user_id) == "demo_user"

\* user_id = message.user_id: the key of both dicts.
ConversationKey(message_user_id) == message_user_id

Affirmatives == {"yes", "y", "sure", "ok", "okay", "yeah", "yep"}

Messages == {" Yes ", "report first thing"}

\* message.lower().strip()
LowerStrip(m) == IF m = " Yes " THEN "yes" ELSE m

\* What TaskParser.parse_task may return for a message: Claude decides.
ParseResults ==
    {[success |-> FALSE],
     [success |-> TRUE, data |-> [needs_clarification |-> TRUE]],
     [success |-> TRUE, data |-> [action |-> "reschedule"]],
     [success |-> TRUE,
      data |-> [action |-> "schedule",
                tasks |-> <<[title |-> "Report", duration_minutes |-> 60,
                             priority |-> "high"]>>]],
     [success |-> TRUE,
      data |-> [action |-> "schedule",
                tasks |-> <<[title |-> "Notes", duration_minutes |-> 90,
                             priority |-> "low"],
                            [title |-> "Gym", recurring |-> TRUE,
                             null |-> {"recurrence_pattern",
                                       "occurrences"}]>>]]}

\* The X-Timezone header of a request.
ChatZone == "UTC"

\* The statuses left for the create_event calls after the first n.
ShiftStatus(status, n) ==
    [i \in DOMAIN status |->
        IF i + n \in DOMAIN status THEN status[i + n] ELSE "confirmed"]

Loop(kind, reqs, scheduled_tasks, res, task_data) ==
    [kind |-> kind, requests |-> reqs, scheduled_tasks |-> scheduled_tasks,
     result |-> res, task_data |-> task_data]

\* for task_data in parsed_data["tasks"]: the loop ends early on a result
\* with has_conflict, and on an exception.
RECURSIVE ScheduleLoop(_, _, _, _, _, _, _)
ScheduleLoop(tasks, i, user_preferences, clock, status, reqs, scheduled_tasks) ==
    IF i > Len(tasks)
    THEN Loop("done", reqs, scheduled_tasks, NoneDict, NoneDict)
    ELSE
        LET o == schedule_task(tasks[i], user_preferences, ChatZone, clock,
                               ShiftStatus(status, Len(reqs)))
        IN  IF "raised" \in DOMAIN o.result
            THEN Loop("raised", reqs \o o.requests, scheduled_tasks,
                      o.result, tasks[i])
            ELSE IF HasConflict(o.result)
            THEN Loop("conflict", reqs \o o.requests, scheduled_tasks,
                      o.result, tasks[i])
            ELSE ScheduleLoop(tasks, i + 1, user_preferences, clock, status,
                              reqs \o o.requests,
                              scheduled_tasks \o ScheduledEvents(o.result))

\* The record chat.py keeps for a result with has_conflict.
PendingConfirmation(task_data, user_preferences, res) ==
    LET proposed == Get(res, "proposed_event", <<>>)
    IN  [task_data |-> task_data,
         user_preferences |-> user_preferences,
         user_timezone |-> ChatZone,
         start_time |-> Get(proposed, "start_time", Word("")),
         end_time |-> Get(proposed, "end_time", Word(""))]

IdleRequest == [stage |-> "idle"]

\* The outcome of a user's n-th request: the message, the path process_chat
\* took, the create_event requests it issued, and whether one of them
\* overlaps an event the user's calendar held.
Served(n, message, path, reqs, overlap) ==
    [n |-> n, message |-> message, path |-> path, requests |-> reqs,
     overlap |-> overlap]

InitChat ==
    /\ now = DT(FirstNowDay, NowMinute)
    /\ calendar = <<>>
    /\ pre = <<>>
    /\ requests = <<>>
    /\ result = [called |-> FALSE]
    /\ prefs = NoneDict
    /\ fn = "chat"
    /\ arg = <<>>
    /\ out = <<>>
    /\ user_conversations = <<>>
    /\ pending_confirmations = <<>>
    /\ inflight = [u \in Users |-> IdleRequest]
    /\ calendars =
           [u \in Users |-> <<External("Standup", FirstNowDay, 570, 600)>>]
    /\ actor = None
    /\ served = [u \in Users |-> Served(0, "", "none", <<>>, FALSE)]

\* create_response and the return: the assistant's reply joins the
\* conversation, and the request is over.
Respond(user_id, conversation, message, reply, path, reqs, service, pending, summary) ==
    /\ user_conversations' =
           Put(user_conversations, ConversationKey(user_id),
               add_message(conversation, "assistant", reply, now, summary))
    /\ pending_confirmations' = pending
    /\ inflight' = [inflight EXCEPT ![user_id] = IdleRequest]
    /\ calendars' =
           [calendars EXCEPT ![user_id] = @ \o StoredBy(service, reqs)]
    /\ actor' = user_id
    /\ served' =
           [served EXCEPT ![user_id] =
               Served(@.n + 1, message, path, reqs,
                      \E i \in 1..Len(reqs) :
                          Overlapping(reqs[i], calendars[user_id]) # <<>>)]
    /\ requests' = reqs
    /\ UNCHANGED <<now, calendar, pre, result, prefs, fn, arg, out>>

\* process_chat up to its await of get_user_credentials.
Receive(user_id, m, parsed_result, summary) ==
    LET user_key == ConversationKey(user_id)
        conversation ==
            add_message(IF user_key \in DOMAIN user_conversations
                        THEN user_conversations[user_key]
                        ELSE ConversationManager(max_history),
                        "user", m, now, summary)
        Suspend(request) ==
            /\ user_conversations' =
                   Put(user_conversations, user_key, conversation)
            /\ inflight' = [inflight EXCEPT ![user_id] = request]
            /\ actor' = user_id
            /\ requests' = <<>>
            /\ UNCHANGED <<pending_confirmations, calendars, served, now,
                           calendar, pre, result, prefs, fn, arg, out>>
    IN  /\ inflight[user_id] = IdleRequest
        /\ served[user_id].n < MaxTurns
        /\ IF /\ user_key \in DOMAIN pending_confirmations
              /\ LowerStrip(m) \in Affirmatives
           THEN Suspend([stage |-> "confirm", message |-> m,
                         pending |-> pending_confirmations[user_key]])
           ELSE IF ~parsed_result.success
           THEN Respond(user_id, conversation, m,
                        "I couldn't understand that.", "not understood",
                        <<>>, "mock", pending_confirmations, summary)
           ELSE IF Get(parsed_result.data, "needs_clarification", FALSE)
           THEN Respond(user_id, conversation, m,
                        "I need some more information:", "clarification",
                        <<>>, "mock", pending_confirmations, summary)
           ELSE Suspend([stage |-> "act", message |-> m,
                         parsed_data |-> parsed_result.data])

\* The description the confirmation path writes (its "\\n" is not a newline).
ConfirmedDescription(priority) ==
    [kind |-> "Priority", priority |-> priority, by |-> "Scheduled by CalBot",
     newline |-> FALSE]

\* except Exception: the reply that ends a request whose handling raised.
SomethingWentWrong(user_id, message, reqs, service, summary) ==
    Respond(user_id, user_conversations[ConversationKey(user_id)], message,
            "Something went wrong. Please try again.", "error", reqs, service,
            pending_confirmations, summary)

\* The confirmation path after its await: the event is created from the
\* pending record as it was read before the await, then the record is
\* deleted.
ConfirmPending(user_id, request, service, status, summary) ==
    LET user_key == ConversationKey(user_id)
        pending == request.pending
        title == Get(pending.task_data, "title", "Untitled Task")
        duration == Get(pending.task_data, "duration_minutes", 60)
        priority == Get(pending.task_data, "priority", "medium")
        stored == "start_time" \in DOMAIN pending
        start_time ==
            IF stored THEN pending.start_time.dt
            ELSE NowIn(now, pending.user_timezone)
        end_time ==
            IF stored THEN pending.end_time.dt
            ELSE AddMinutes(start_time, duration)
        event == create_event(title, start_time, end_time,
                              ConfirmedDescription(priority), status[1])
    IN  IF \/ stored /\ ~(IsoParses(pending.start_time)
                            /\ IsoParses(pending.end_time))
           \/ ~stored /\ ~KnownZone(pending.user_timezone)
        THEN SomethingWentWrong(user_id, request.message, <<>>, service,
                                summary)
        ELSE IF user_key \notin DOMAIN pending_confirmations
        THEN SomethingWentWrong(user_id, request.message, <<event>>, service,
                                summary)
        ELSE Respond(user_id, user_conversations[user_key], request.message,
                     "Scheduled (even though there's a conflict)", "confirm",
                     <<event>>, service,
                     Del(pending_confirmations, user_key), summary)

\* The other paths after the await: the schedule action, and the actions
\* that only reply.
Act(user_id, request, service, status, summary) ==
    LET user_key == ConversationKey(user_id)
        conversation == user_conversations[user_key]
        parsed_data == request.parsed_data
        action == Get(parsed_data, "action", "schedule")
        user_preferences == DefaultPolicy(ChatZone)
    IN  IF action = "schedule" /\ Get(parsed_data, "tasks", <<>>) # <<>>
        THEN \E loop \in {ScheduleLoop(parsed_data.tasks, 1, user_preferences,
                                       now, status, <<>>, <<>>)} :
                 IF loop.kind = "raised"
                 THEN SomethingWentWrong(user_id, request.message,
                                         loop.requests, service, summary)
                 ELSE IF loop.kind = "conflict"
                 THEN Respond(user_id, conversation, request.message,
                              Get(loop.result, "message",
                                  "Time conflict detected"),
                              "conflict", loop.requests, service,
                              Put(pending_confirmations, user_key,
                                  PendingConfirmation(loop.task_data,
                                      user_preferences, loop.result)),
                              summary)
                 ELSE IF loop.scheduled_tasks # <<>>
                 THEN Respond(user_id, conversation, request.message,
                              "Scheduled", "scheduled", loop.requests,
                              service, pending_confirmations, summary)
                 ELSE Respond(user_id, conversation, request.message,
                              "I couldn't find a suitable time slot.",
                              "no slot", loop.requests, service,
                              pending_confirmations, summary)
        ELSE Respond(user_id, conversation, request.message,
                     IF action = "reschedule"
                     THEN "Rescheduling feature coming soon!"
                     ELSE "I understand. How can I help you?",
                     "reply", <<>>, service, pending_confirmations, summary)

\* process_chat from its await on: with the user's credentials the real
\* calendar is used, without them the mock one.
Resume(user_id, service, errors, summary) ==
    /\ inflight[user_id] # IdleRequest
    /\ IF inflight[user_id].stage = "confirm"
       THEN ConfirmPending(user_id, inflight[user_id], service,
                           StatusOf(errors), summary)
       ELSE Act(user_id, inflight[user_id], service, StatusOf(errors),
                summary)

Summaries == {None, "summary of the older messages"}

ReceiveMessage ==
    \E user_id \in Users, m \in Messages, parsed_result \in ParseResults :
        \E summary \in Summaries :
            Receive(user_id, m, parsed_result, summary)

\* The store's failures are left to the single calls above: here every
\* insert goes through.
ResumeRequest ==
    \E user_id \in Users, service \in {"real", "mock"} :
        \E summary \in Summaries :
            Resume(user_id, service, {}, summary)

NextChat == ReceiveMessage \/ ResumeRequest

SpecChat == InitChat /\ [][NextChat]_vars

\* What a dict holds for a key: <<value>>, or <<>> when the key is absent.
Entry(d, k) == IF k \in DOMAIN d THEN <<d[k]>> ELSE <<>>

\* A step in which user u's request is answered.
Completes(u) == served'[u].n = served[u].n + 1

\* User u's last answered request proposed an interval that overlaps an
\* event of u's calendar, and was not itself a confirmation: the case in
\* which a conflict is due and a confirmation is awaited.
AwaitsConfirmation(u) == served[u].overlap /\ served[u].path # "confirm"

SameProposal(e, f) ==
    e.title = f.title /\ e.start = f.start /\ e.end = f.end

TaskPaths == {"scheduled", "no slot", "conflict", "error"}

MaxHistories == {1, 3, 10, 12}

Roles == {"user", "assistant"}

InitMemory ==
    /\ Idle
    /\ fn = "new"
    /\ arg \in [max_history : MaxHistories, added : {0}]
    /\ out = ConversationManager(arg.max_history)

AddMessage ==
    /\ fn \in {"new", "added", "cleared"}
    /\ arg.added < MaxMessages
    /\ \E role \in Roles, summary \in Summaries :
           out' = add_message(out, role, arg.added + 1, now, summary)
    /\ arg' = [arg EXCEPT !.added = @ + 1]
    /\ fn' = "added"
    /\ UNCHANGED <<now, calendar, pre, requests, result, prefs, chat>>

Clear ==
    /\ fn = "added"
    /\ out' = clear(out)
    /\ arg' = [arg EXCEPT !.added = 0]
    /\ fn' = "cleared"
    /\ UNCHANGED <<now, calendar, pre, requests, result, prefs, chat>>

NextMemory == AddMessage \/ Clear

SpecMemory == InitMemory /\ [][NextMemory]_vars

\* The stored messages are the most recent ones, in the order they came.
MostRecentInOrder(history, added) ==
    \A i \in 1..Len(history) :
        history[i].content = added - (Len(history) - i)

\* C26: after every add_message the history holds at most max_history
\* messages, and they are the most recent ones in their original order;
\* after clear() the history is empty and the summary unset.
C26_HistoryWithinMaxHistory ==
    /\ fn = "added" =>
          /\ Len(out.conversation_history) <= out.max_history
          /\ MostRecentInOrder(out.conversation_history, arg.added)
    /\ fn = "cleared" =>
          /\ out.conversation_history = <<>>
          /\ out.summarized_context = None

====
